---- MODULE Spec2Model ----
(***************************************************************************)
(* Model of download_vid.py: the VideoDownloader class (constructor,       *)
(* input validation, option building, download) and the CLI entry point    *)
(* main().  Python strings are sequences of one-character strings, so that *)
(* lower(), startswith(), the substring test and os.path.splitext are      *)
(* computed the way the code computes them.  The yt-dlp library, the       *)
(* filesystem and the interrupt signal are the environment: each library   *)
(* call returns or raises nondeterministically.                            *)
(***************************************************************************)
EXTENDS Integers, Sequences, FiniteSets, TLC

(***************************************************************************)
(* Bounds of the model.                                                    *)
(***************************************************************************)
\* longest custom filename drawn over FilenameAlphabet
MaxNameLen == 3

(***************************************************************************)
(* String literals of the source.                                          *)
(***************************************************************************)
youtube == <<"y", "o", "u", "t", "u", "b", "e">>
instagram == <<"i", "n", "s", "t", "a", "g", "r", "a", "m">>
twitter == <<"t", "w", "i", "t", "t", "e", "r">>
x == <<"x">>
youtube_com == <<"y", "o", "u", "t", "u", "b", "e", ".", "c", "o", "m">>
youtu_be == <<"y", "o", "u", "t", "u", ".", "b", "e">>
instagram_com == <<"i", "n", "s", "t", "a", "g", "r", "a", "m", ".", "c", "o", "m">>
twitter_com == <<"t", "w", "i", "t", "t", "e", "r", ".", "c", "o", "m">>
x_com == <<"x", ".", "c", "o", "m">>
http_prefix == <<"h", "t", "t", "p", ":", "/", "/">>
https_prefix == <<"h", "t", "t", "p", "s", ":", "/", "/">>
best == <<"b", "e", "s", "t">>
q360 == <<"3", "6", "0">>
q480 == <<"4", "8", "0">>
q720 == <<"7", "2", "0">>
q1080 == <<"1", "0", "8", "0">>
mp3 == <<"m", "p", "3">>
mp4 == <<"m", "p", "4">>
sel_audio == <<"b", "e", "s", "t", "a", "u", "d", "i", "o", "/", "b", "e", "s", "t">>
sel_best == <<"b", "e", "s", "t", "v", "i", "d", "e", "o", "+", "b", "e", "s", "t", "a", "u", "d", "i", "o", "/", "b", "e", "s", "t">>
sel_a == <<"b", "e", "s", "t", "v", "i", "d", "e", "o", "[", "h", "e", "i", "g", "h", "t", "<", "=">>
sel_b == <<"]", "+", "b", "e", "s", "t", "a", "u", "d", "i", "o", "/", "b", "e", "s", "t", "[", "h", "e", "i", "g", "h", "t", "<", "=">>
sel_c == <<"]", "/", "b", "e", "s", "t">>
title_tmpl == <<"%", "(", "t", "i", "t", "l", "e", ")", "s", ".", "%", "(", "e", "x", "t", ")", "s">>
ext_tmpl == <<".", "%", "(", "e", "x", "t", ")", "s">>

\* class attribute PLATFORMS: platform name -> known domains
PLATFORMS ==
    (youtube :> <<youtube_com, youtu_be>>) @@
    (instagram :> <<instagram_com>>) @@
    (twitter :> <<twitter_com, x_com>>) @@
    (x :> <<twitter_com, x_com>>)

\* class attribute QUALITY_OPTIONS
QUALITY_OPTIONS == <<q360, q480, q720, q1080, best>>

\* choices= of the --platform and --quality flags of the argument parser
PlatformChoices == {youtube, instagram, twitter, x}
QualityChoices == {q360, q480, q720, q1080, best}

(***************************************************************************)
(* Python values and string operations.                                    *)
(***************************************************************************)
\* an Optional[str]: None, or a string (possibly empty)
None == [some |-> FALSE, val |-> <<>>]
Some(s) == [some |-> TRUE, val |-> s]
\* Python truthiness of an Optional[str]: None and "" are falsy
Truthy(o) == o.some /\ o.val # <<>>

Range(s) == {s[i] : i \in DOMAIN s}

\* str.lower(), on the characters the model uses
LowerChar(c) ==
    CASE c = "Y" -> "y"
      [] c = "T" -> "t"
      [] c = "X" -> "x"
      [] c = "H" -> "h"
      [] OTHER -> c
Lower(s) == [i \in DOMAIN s |-> LowerChar(s[i])]

\* str.startswith(prefix)
StartsWith(s, prefix) ==
    /\ Len(prefix) <= Len(s)
    /\ SubSeq(s, 1, Len(prefix)) = prefix

\* the substring test `sub in s`
Contains(s, sub) ==
    \E i \in 0..(Len(s) - Len(sub)) : SubSeq(s, i + 1, i + Len(sub)) = sub

\* str.rfind(ch), 1-based; 0 when absent
RFind(s, ch) ==
    LET hits == {i \in DOMAIN s : s[i] = ch}
    IN  IF hits = {} THEN 0 ELSE CHOOSE i \in hits : \A j \in hits : j <= i

\* os.path.splitext(p)[0]: the extension starts at the last dot after the
\* last separator, unless only dots precede it in the file name
SplitExtRoot(p) ==
    LET sepIndex == RFind(p, "/")
        dotIndex == RFind(p, ".")
    IN  IF dotIndex > sepIndex
           /\ \E i \in (sepIndex + 1)..(dotIndex - 1) : p[i] # "."
        THEN SubSeq(p, 1, dotIndex - 1)
        ELSE p

\* int(s) for a string of decimal digits
DigitValue(c) ==
    CASE c = "0" -> 0 [] c = "1" -> 1 [] c = "2" -> 2 [] c = "3" -> 3
      [] c = "4" -> 4 [] c = "5" -> 5 [] c = "6" -> 6 [] c = "7" -> 7
      [] c = "8" -> 8 [] c = "9" -> 9
Digits == {"0", "1", "2", "3", "4", "5", "6", "7", "8", "9"}
IsDecimal(s) == s # <<>> /\ Range(s) \subseteq Digits
RECURSIVE ParseInt(_)
ParseInt(s) ==
    IF s = <<>> THEN 0
    ELSE 10 * ParseInt(SubSeq(s, 1, Len(s) - 1)) + DigitValue(s[Len(s)])

\* str(n) / f"{n}" for a natural number
DigitChar(d) ==
    CASE d = 0 -> "0" [] d = 1 -> "1" [] d = 2 -> "2" [] d = 3 -> "3"
      [] d = 4 -> "4" [] d = 5 -> "5" [] d = 6 -> "6" [] d = 7 -> "7"
      [] d = 8 -> "8" [] d = 9 -> "9"
RECURSIVE FormatInt(_)
FormatInt(n) ==
    IF n < 10 THEN <<DigitChar(n)>>
    ELSE FormatInt(n \div 10) \o <<DigitChar(n % 10)>>

(***************************************************************************)
(* The filesystem and pathlib.                                             *)
(***************************************************************************)
\* Path.cwd()
Cwd == <<"/", "w">>
\* regular files on disk: a cookie file and a file in the way of a directory
CookieFile == <<"k">>
PlainFile == <<"f">>
FsFiles == {CookieFile, PlainFile}
\* os.path.isfile
IsFile(p) == p \in FsFiles

\* Path(a) / b
PathJoin(a, b) ==
    IF b # <<>> /\ b[1] = "/" THEN b ELSE a \o <<"/">> \o b
\* Path.absolute()
Absolute(p) == IF p # <<>> /\ p[1] = "/" THEN p ELSE PathJoin(Cwd, p)
\* the directory and every ancestor named in it
WithParents(p) ==
    {p} \cup {SubSeq(p, 1, i - 1) : i \in {j \in DOMAIN p : j > 1 /\ p[j] = "/"}}

(***************************************************************************)
(* class VideoDownloader.  An object is the record of its attributes.      *)
(***************************************************************************)
_normalize_platform(platform) ==
    LET platform_lower == Lower(platform)
    IN  IF platform_lower = x THEN twitter ELSE platform_lower

\* the attribute assignments of __init__
InitAttributes(a) ==
    [ platform   |-> _normalize_platform(a.platform),
      link       |-> a.link,
      quality    |-> IF Truthy(a.quality) THEN a.quality.val ELSE best,
      output_dir |-> IF Truthy(a.output_dir) THEN a.output_dir.val ELSE Cwd,
      audio_only |-> a.audio_only,
      filename   |-> a.filename,
      cookies    |-> a.cookies,
      format     |-> a.format ]

\* the four checks of _validate_inputs and its advisory domain test
PlatformOk(s) == s.platform \in DOMAIN PLATFORMS
UrlOk(s) == StartsWith(s.link, http_prefix) \/ StartsWith(s.link, https_prefix)
\* variant: the URL is compared without lower-casing it
DomainMatchesCaseSensitive(s) ==
    LET platform_domains == PLATFORMS[s.platform]
    IN  \E i \in DOMAIN platform_domains : Contains(s.link, platform_domains[i])
DomainMatches(s) ==
    LET url_lower == Lower(s.link)
        platform_domains == PLATFORMS[s.platform]
    IN  \E i \in DOMAIN platform_domains : Contains(url_lower, platform_domains[i])
\* variant: any decimal number is taken for a quality
QualityOkAnyNumber(s) == s.quality = best \/ IsDecimal(s.quality)
QualityOk(s) == s.quality \in Range(QUALITY_OPTIONS)
\* variant: the cookie file is not looked up
CookiesOkUnchecked(s) == TRUE
CookiesOk(s) == ~(Truthy(s.cookies) /\ ~IsFile(s.cookies.val))

\* variant: the cookie file is checked before the platform, URL and quality
_validate_inputs_cookies_first(s) ==
    IF ~CookiesOk(s) THEN [raises |-> "FileNotFoundError", warned |-> FALSE]
    ELSE IF ~PlatformOk(s) THEN [raises |-> "ValueError", warned |-> FALSE]
    ELSE IF ~UrlOk(s) THEN [raises |-> "ValueError", warned |-> FALSE]
    ELSE IF ~QualityOk(s)
         THEN [raises |-> "ValueError", warned |-> ~DomainMatches(s)]
         ELSE [raises |-> "none", warned |-> ~DomainMatches(s)]

\* _validate_inputs: the exception it raises ("none" when it returns) and
\* whether the mismatch warning was printed before that
_validate_inputs(s) ==
    IF ~PlatformOk(s) THEN [raises |-> "ValueError", warned |-> FALSE]
    ELSE IF ~UrlOk(s) THEN [raises |-> "ValueError", warned |-> FALSE]
    ELSE LET warned == ~DomainMatches(s)
         IN  IF ~QualityOk(s) THEN [raises |-> "ValueError", warned |-> warned]
             ELSE IF ~CookiesOk(s)
                  THEN [raises |-> "FileNotFoundError", warned |-> warned]
                  ELSE [raises |-> "none", warned |-> warned]

\* variant: the numeric selector has no unrestricted fallback
_get_quality_format_selector_no_fallback(s) ==
    IF s.audio_only THEN sel_audio
    ELSE IF s.quality = best THEN sel_best
    ELSE IF ~IsDecimal(s.quality) THEN sel_best
    ELSE LET target_height == ParseInt(s.quality)
         IN  sel_a \o FormatInt(target_height) \o sel_b
                   \o FormatInt(target_height) \o <<"]">>

_get_quality_format_selector(s) ==
    IF s.audio_only THEN sel_audio
    ELSE IF s.quality = best THEN sel_best
    ELSE IF ~IsDecimal(s.quality) THEN sel_best
    ELSE LET target_height == ParseInt(s.quality)
         IN  sel_a \o FormatInt(target_height) \o sel_b
                   \o FormatInt(target_height) \o sel_c

_get_output_template(s) ==
    IF Truthy(s.filename)
    THEN LET base_name == SplitExtRoot(s.filename.val)
         IN  PathJoin(s.output_dir, base_name \o ext_tmpl)
    ELSE PathJoin(s.output_dir, title_tmpl)

\* the postprocessors entry: absent, or the audio codec of FFmpegExtractAudio
AudioCodec(s) == IF Truthy(s.format) THEN s.format.val ELSE mp3

_get_ydl_opts(s) ==
    [ format     |-> _get_quality_format_selector(s),
      outtmpl    |-> IF s.audio_only /\ ~Truthy(s.filename)
                     THEN PathJoin(s.output_dir, title_tmpl)
                     ELSE _get_output_template(s),
      cookiefile |-> IF Truthy(s.cookies) THEN s.cookies ELSE None,
      postprocessors |->
          IF s.audio_only
          THEN <<[key |-> "FFmpegExtractAudio",
                  preferredcodec |-> AudioCodec(s),
                  preferredquality |-> <<"1", "9", "2">>]>>
          ELSE <<>>,
      merge_output_format |->
          IF ~s.audio_only /\ Truthy(s.format) THEN s.format ELSE None ]

\* info.get('ext', 'mp4')
InfoExt(i) == IF i.ext.some THEN i.ext.val ELSE mp4

\* variant: in video mode the reported extension wins over the format
FinalPathCustomInfoFirst(s, i) ==
    LET base_name == SplitExtRoot(s.filename.val)
        ext == IF s.audio_only
               THEN (IF Truthy(s.format) THEN s.format.val ELSE mp3)
               ELSE (IF i.ext.some THEN i.ext.val
                     ELSE IF Truthy(s.format) THEN s.format.val ELSE mp4)
    IN  Absolute(PathJoin(s.output_dir, base_name \o <<".">> \o ext))

\* the final path of download() when a custom filename was given
FinalPathCustom(s, i) ==
    LET base_name == SplitExtRoot(s.filename.val)
        ext == IF s.audio_only
               THEN (IF Truthy(s.format) THEN s.format.val ELSE mp3)
               ELSE (IF Truthy(s.format) THEN s.format.val ELSE InfoExt(i))
    IN  Absolute(PathJoin(s.output_dir, base_name \o <<".">> \o ext))

\* the final path of download() from ydl.prepare_filename(info)
FinalPathPrepared(s, name) ==
    IF s.audio_only
    THEN LET base == SplitExtRoot(name)
             ext == IF Truthy(s.format) THEN s.format.val ELSE mp3
         IN  Absolute(base \o <<".">> \o ext)
    ELSE IF Truthy(s.format)
         THEN Absolute(SplitExtRoot(name) \o <<".">> \o s.format.val)
         ELSE Absolute(name)

(***************************************************************************)
(* Inputs.                                                                 *)
(***************************************************************************)
YouTube == <<"Y", "o", "u", "T", "u", "b", "e">>
vimeo == <<"v", "i", "m", "e", "o">>
webm == <<"w", "e", "b", "m">>
q999 == <<"9", "9", "9">>
q72 == <<"7", "2">>
LinkYoutube == <<"h", "t", "t", "p", "s", ":", "/", "/", "y", "o", "u", "t", "u", "b", "e", ".", "c", "o", "m", "/", "w">>
LinkYoutuBe == <<"h", "t", "t", "p", ":", "/", "/", "y", "o", "u", "t", "u", ".", "b", "e", "/", "a">>
LinkUpper == <<"h", "t", "t", "p", "s", ":", "/", "/", "Y", "o", "u", "T", "u", "b", "e", ".", "c", "o", "m", "/", "w">>
LinkQuery == <<"h", "t", "t", "p", "s", ":", "/", "/", "e", ".", "c", "o", "m", "/", "?", "y", "o", "u", "t", "u", "b", "e", ".", "c", "o", "m">>
LinkX == <<"h", "t", "t", "p", "s", ":", "/", "/", "x", ".", "c", "o", "m", "/", "s">>
LinkFtp == <<"f", "t", "p", ":", "/", "/", "x", ".", "c", "o", "m", "/", "s">>
LinkNoScheme == <<"y", "o", "u", "t", "u", "b", "e", ".", "c", "o", "m", "/", "w">>
LinkVimeo == <<"h", "t", "t", "p", "s", ":", "/", "/", "v", "i", "m", "e", "o", ".", "c", "o", "m", "/", "1">>
OutDir == <<"o", "u", "t">>
OutSub == <<"o", "/", "s">>
MissingCookie == <<"m">>
PreparedMp4 == <<"o", "u", "t", "/", "t", ".", "m", "p", "4">>
PreparedTwoDots == <<"o", "u", "t", "/", "t", ".", "x", ".", "w", "e", "b", "m">>
PreparedNoExt == <<"o", "u", "t", "/", "t">>
PreparedHidden == <<"/", "w", "/", ".", "t">>

\* every string over alphabet of length 0..n
RECURSIVE Strings(_, _)
Strings(alphabet, n) ==
    IF n = 0 THEN {<<>>}
    ELSE LET shorter == Strings(alphabet, n - 1)
         IN  shorter \cup {Append(w, c) : w \in shorter, c \in alphabet}
FilenameAlphabet == {"c", "."}
Filenames == Strings(FilenameAlphabet, MaxNameLen)

Optional(S) == {None} \cup {Some(v) : v \in S}

\* what the library can answer to a call: return, or raise one of these
LibraryErrors == {"DownloadError", "ExtractorError", "Exception", "KeyboardInterrupt"}
\* the metadata extract_info returns: its 'ext' entry may be absent
Infos == {[ext |-> e] : e \in Optional({mp4, webm})}
\* what prepare_filename predicts
PreparedFilenames == {PreparedMp4, PreparedTwoDots, PreparedNoExt, PreparedHidden}

\* runs that exercise the validator
ValidateArgs ==
    [ platform   : {youtube, YouTube, x, instagram, vimeo},
      link       : {LinkYoutube, LinkYoutuBe, LinkUpper, LinkQuery, LinkX,
                    LinkFtp, LinkNoScheme, LinkVimeo},
      quality    : Optional({<<>>, q720, q1080, best, q999, q72}),
      output_dir : {None},
      audio_only : {FALSE},
      filename   : {None},
      cookies    : Optional({<<>>, CookieFile, MissingCookie, OutDir}),
      format     : {None} ]

\* runs that exercise the output directory
DirectoryArgs ==
    [ platform   : {youtube, vimeo},
      link       : {LinkYoutube, LinkNoScheme},
      quality    : {Some(q480), Some(q999)},
      output_dir : Optional({<<>>, OutDir, OutSub, PlainFile}),
      audio_only : {FALSE},
      filename   : {None},
      cookies    : {None, Some(MissingCookie)},
      format     : {None} ]

\* runs that exercise the option builder and the final path
PathArgs ==
    [ platform   : {youtube},
      link       : {LinkYoutube},
      quality    : {None, Some(q360), Some(q480), Some(q720), Some(q1080), Some(best)},
      output_dir : {None, Some(OutDir)},
      audio_only : BOOLEAN,
      filename   : Optional(Filenames),
      cookies    : {None},
      format     : Optional({<<>>, webm}) ]

Args == ValidateArgs \cup DirectoryArgs \cup PathArgs

(***************************************************************************)
(* State.                                                                  *)
(***************************************************************************)
VARIABLES
    mode,       \* "cli": main() is run; "lib": a caller constructs and downloads
    help,       \* cli: --help is on the command line
    suppress_output, \* the argument of download()
    args,       \* the raw arguments (command line values, or constructor arguments)
    pc,         \* where the run is
    self,       \* <<>> or <<the constructed VideoDownloader>>
    fsDirs,     \* the directories that exist
    stdout,     \* what was printed, as a sequence of message kinds
    exc,        \* the exception that is propagating, "none" when there is none
    exitCode,   \* the process exit status, NotExited while the process runs
    libCalls,   \* the yt-dlp entry points called so far, in order
    ydl_opts,   \* <<>> or <<the options record>>
    info,       \* <<>> or <<the metadata extract_info returned>>
    result,     \* what download() returned: None or Some(path)
    final_filename \* <<>> or <<what ydl.prepare_filename(info) returned>>

vars == <<mode, help, suppress_output, args, pc, self, fsDirs, stdout, exc,
          exitCode, libCalls, ydl_opts, info, result, final_filename>>

NotExited == 0 - 1

Init ==
    /\ mode \in {"cli", "lib"}
    /\ help \in BOOLEAN
    /\ suppress_output \in BOOLEAN
    /\ mode = "cli" => ~suppress_output
    /\ mode = "lib" => ~help
    /\ args \in Args
    /\ pc = IF mode = "cli" THEN "main" ELSE "ctor"
    /\ self = <<>>
    /\ fsDirs = {Cwd}
    /\ stdout = <<>>
    /\ exc = "none"
    /\ exitCode = NotExited
    /\ libCalls = <<>>
    /\ ydl_opts = <<>>
    /\ info = <<>>
    /\ result = None
    /\ final_filename = <<>>

(***************************************************************************)
(* Steps of a run.                                                         *)
(***************************************************************************)
\* sys.exit(code): the interpreter leaves with that status (nothing in this
\* program catches SystemExit)
SysExit(code) ==
    /\ exitCode' = code
    /\ pc' = "exited"

\* an exception leaves the current function
Raise(e) ==
    /\ exc' = e
    /\ pc' = "unwind"

\* the values the parser rejects: a platform or a quality outside choices=
ParserRejects(a) ==
    \/ a.platform \notin PlatformChoices
    \/ a.quality.some /\ a.quality.val \notin QualityChoices

\* main(): parser.parse_args().  --help prints the help and exits 0, a value
\* outside choices= prints the usage and exits 2, whichever flag comes first
\* on the command line; an absent --quality takes its default.
ParseArgs ==
    /\ pc = "main"
    /\ \/ /\ help
          /\ stdout' = Append(stdout, "help")
          /\ SysExit(0)
          /\ UNCHANGED args
       \/ /\ ParserRejects(args)
          /\ stdout' = Append(stdout, "usage error")
          /\ SysExit(2)
          /\ UNCHANGED args
       \/ /\ ~help
          /\ ~ParserRejects(args)
          /\ args' = [args EXCEPT !.quality = IF @.some THEN @ ELSE Some(best)]
          /\ pc' = "ctor"
          /\ UNCHANGED <<stdout, exitCode>>
    /\ UNCHANGED <<mode, help, suppress_output, self, fsDirs, exc, libCalls,
                   ydl_opts, info, result,
                   final_filename>>

\* output_dir.mkdir(parents=True, exist_ok=True) fails when a regular file is
\* in the way
MkdirFails(dir) == \E d \in WithParents(dir) : IsFile(d)

WarningPrinted(out, v) == IF v.warned THEN Append(out, "warning") ELSE out

\* variant: the output directory is created before the validation
ConstructMkdirFirst ==
    /\ pc = "ctor"
    /\ LET s == InitAttributes(args)
           v == _validate_inputs(s)
       IN  IF MkdirFails(s.output_dir)
           THEN /\ Raise("FileExistsError")
                /\ UNCHANGED <<self, fsDirs, stdout>>
           ELSE /\ fsDirs' = fsDirs \cup WithParents(s.output_dir)
                /\ stdout' = WarningPrinted(stdout, v)
                /\ IF v.raises # "none"
                   THEN Raise(v.raises) /\ UNCHANGED self
                   ELSE self' = <<s>> /\ pc' = "download" /\ UNCHANGED exc
    /\ UNCHANGED <<mode, help, suppress_output, args, exitCode, libCalls,
                   ydl_opts, info, result, final_filename>>

\* VideoDownloader.__init__: assign, validate, create the output directory
Construct ==
    /\ pc = "ctor"
    /\ LET s == InitAttributes(args)
           v == _validate_inputs(s)
       IN  \/ /\ v.raises # "none"
              /\ stdout' = WarningPrinted(stdout, v)
              /\ Raise(v.raises)
              /\ UNCHANGED <<self, fsDirs>>
           \/ /\ v.raises = "none"
              /\ MkdirFails(s.output_dir)
              /\ stdout' = WarningPrinted(stdout, v)
              /\ Raise("FileExistsError")
              /\ UNCHANGED <<self, fsDirs>>
           \/ /\ v.raises = "none"
              /\ ~MkdirFails(s.output_dir)
              /\ stdout' = WarningPrinted(stdout, v)
              /\ fsDirs' = fsDirs \cup WithParents(s.output_dir)
              /\ self' = <<s>>
              /\ pc' = "download"
              /\ UNCHANGED exc
    /\ UNCHANGED <<mode, help, suppress_output, args, exitCode, libCalls,
                   ydl_opts, info, result,
                   final_filename>>

\* the interrupt signal arrives while __init__ runs: before the validation,
\* or after the directory was created
ConstructInterrupted ==
    /\ pc = "ctor"
    /\ LET s == InitAttributes(args)
           v == _validate_inputs(s)
       IN  \/ UNCHANGED <<stdout, fsDirs>>
           \/ /\ v.raises = "none"
              /\ ~MkdirFails(s.output_dir)
              /\ stdout' = WarningPrinted(stdout, v)
              /\ fsDirs' = fsDirs \cup WithParents(s.output_dir)
    /\ Raise("KeyboardInterrupt")
    /\ UNCHANGED <<mode, help, suppress_output, args, self, exitCode, libCalls,
                   ydl_opts, info, result,
                   final_filename>>

\* download(), up to the first library call: the late import of yt_dlp, the
\* header, the options
DownloadBegin ==
    /\ pc = "download"
    /\ \/ \* ImportError
          /\ stdout' = IF suppress_output THEN stdout
                       ELSE Append(stdout, "error: yt-dlp is not installed")
          /\ SysExit(1)
          /\ UNCHANGED ydl_opts
       \/ /\ stdout' = IF suppress_output THEN stdout ELSE Append(stdout, "header")
          /\ ydl_opts' = <<_get_ydl_opts(self[1])>>
          /\ pc' = "YoutubeDL"
          /\ UNCHANGED exitCode
    /\ UNCHANGED <<mode, help, suppress_output, args, self, fsDirs, exc,
                   libCalls, info, result,
                   final_filename>>

\* a library call raises: control goes to the except clauses of download()
LibraryRaises(e) ==
    /\ exc' = e
    /\ pc' = "except"

\* yt_dlp.YoutubeDL(ydl_opts)
NewYoutubeDL ==
    /\ pc = "YoutubeDL"
    /\ libCalls' = Append(libCalls, "YoutubeDL")
    /\ \/ pc' = "extract_info" /\ UNCHANGED exc
       \/ \E e \in LibraryErrors : LibraryRaises(e)
    /\ UNCHANGED <<mode, help, suppress_output, args, self, fsDirs, stdout,
                   exitCode, ydl_opts, info, result,
                   final_filename>>

\* info = ydl.extract_info(self.link, download=False)
ExtractInfo ==
    /\ pc = "extract_info"
    /\ libCalls' = Append(libCalls, "extract_info")
    /\ \/ \E i \in Infos :
            /\ info' = <<i>>
            /\ pc' = "ydl_download"
            /\ UNCHANGED exc
       \/ \E e \in LibraryErrors : LibraryRaises(e) /\ UNCHANGED info
    /\ UNCHANGED <<mode, help, suppress_output, args, self, fsDirs, stdout,
                   exitCode, ydl_opts, result,
                   final_filename>>

\* ydl.download([self.link])
YdlDownload ==
    /\ pc = "ydl_download"
    /\ libCalls' = Append(libCalls, "download")
    /\ \/ pc' = "final_path" /\ UNCHANGED exc
       \/ \E e \in LibraryErrors : LibraryRaises(e)
    /\ UNCHANGED <<mode, help, suppress_output, args, self, fsDirs, stdout,
                   exitCode, ydl_opts, info, result,
                   final_filename>>

\* download() returns final_path
Return(final_path) ==
    /\ result' = Some(final_path)
    /\ stdout' = IF suppress_output THEN stdout ELSE Append(stdout, "success")
    /\ pc' = "returned"
    /\ UNCHANGED exc

\* the final path, from the custom filename or from ydl.prepare_filename(info)
FinalPath ==
    /\ pc = "final_path"
    /\ \/ /\ Truthy(self[1].filename)
          /\ Return(FinalPathCustom(self[1], info[1]))
          /\ UNCHANGED <<libCalls, final_filename>>
       \/ /\ ~Truthy(self[1].filename)
          /\ libCalls' = Append(libCalls, "prepare_filename")
          /\ \/ \E name \in PreparedFilenames :
                  /\ final_filename' = <<name>>
                  /\ Return(FinalPathPrepared(self[1], name))
             \/ \E e \in LibraryErrors :
                  /\ LibraryRaises(e)
                  /\ UNCHANGED <<result, stdout, final_filename>>
    /\ UNCHANGED <<mode, help, suppress_output, args, self, fsDirs, exitCode,
                   ydl_opts, info>>

\* what download() raises to its caller for an exception its except clauses
\* catch
Reraised(e) ==
    CASE e = "DownloadError" -> "Exception: Download error"
      [] e = "ExtractorError" -> "Exception: Extraction error"
      [] OTHER -> e

\* variant: a failed download is tried once more
DownloadExceptRetry ==
    /\ pc = "except"
    /\ IF exc = "DownloadError" /\ Len(libCalls) < 6
       THEN /\ exc' = "none"
            /\ pc' = "extract_info"
            /\ UNCHANGED <<stdout, exitCode>>
       ELSE IF exc = "KeyboardInterrupt" \/ suppress_output
       THEN Raise(Reraised(exc)) /\ UNCHANGED <<stdout, exitCode>>
       ELSE /\ stdout' = Append(stdout, "error: " \o exc)
            /\ SysExit(1)
            /\ UNCHANGED exc
    /\ UNCHANGED <<mode, help, suppress_output, args, self, fsDirs, libCalls,
                   ydl_opts, info, result, final_filename>>

\* the except clauses of download(): KeyboardInterrupt is no Exception and
\* passes through; the others print and exit, or are raised to the caller
DownloadExcept ==
    /\ pc = "except"
    /\ \/ /\ exc = "KeyboardInterrupt"
          /\ Raise(exc)
          /\ UNCHANGED <<stdout, exitCode>>
       \/ /\ exc # "KeyboardInterrupt"
          /\ ~suppress_output
          /\ stdout' = Append(stdout, "error: " \o exc)
          /\ SysExit(1)
          /\ UNCHANGED exc
       \/ /\ exc # "KeyboardInterrupt"
          /\ suppress_output
          /\ Raise(Reraised(exc))
          /\ UNCHANGED <<stdout, exitCode>>
    /\ UNCHANGED <<mode, help, suppress_output, args, self, fsDirs, libCalls,
                   ydl_opts, info, result,
                   final_filename>>

\* variant: a cancelled download leaves with status 0
MainExceptCancelIsSuccess ==
    /\ mode = "cli"
    /\ pc = "unwind"
    /\ stdout' = Append(stdout,
          IF exc \in {"ValueError", "FileNotFoundError"} THEN "error: " \o exc
          ELSE IF exc = "KeyboardInterrupt" THEN "cancelled"
          ELSE "traceback")
    /\ SysExit(IF exc = "KeyboardInterrupt" THEN 0 ELSE 1)
    /\ UNCHANGED <<mode, help, suppress_output, args, self, fsDirs, exc,
                   libCalls, ydl_opts, info, result, final_filename>>

\* main(): the except clauses around the constructor and download().  An
\* exception none of them catches ends the interpreter with a traceback and
\* status 1.
MainExcept ==
    /\ mode = "cli"
    /\ pc = "unwind"
    /\ stdout' = Append(stdout,
          IF exc \in {"ValueError", "FileNotFoundError"} THEN "error: " \o exc
          ELSE IF exc = "KeyboardInterrupt" THEN "cancelled"
          ELSE "traceback")
    /\ SysExit(1)
    /\ UNCHANGED <<mode, help, suppress_output, args, self, fsDirs, exc,
                   libCalls, ydl_opts, info, result,
                   final_filename>>

\* main() returns after download() returned: the interpreter exits with 0
MainReturn ==
    /\ mode = "cli"
    /\ pc = "returned"
    /\ SysExit(0)
    /\ UNCHANGED <<mode, help, suppress_output, args, self, fsDirs, stdout,
                   exc, libCalls, ydl_opts, info, result,
                   final_filename>>

Next ==
    \/ ParseArgs
    \/ Construct
    \/ ConstructInterrupted
    \/ DownloadBegin
    \/ NewYoutubeDL
    \/ ExtractInfo
    \/ YdlDownload
    \/ FinalPath
    \/ DownloadExcept
    \/ MainExcept
    \/ MainReturn

Spec == Init /\ [][Next]_vars

(***************************************************************************)
(* Vocabulary of the properties, stated on the raw arguments.              *)
(***************************************************************************)
RecognizedPlatform == Lower(args.platform) \in {youtube, instagram, twitter, x}
HttpUrl == StartsWith(args.link, http_prefix) \/ StartsWith(args.link, https_prefix)
QualitySet == {q360, q480, q720, q1080, best}
\* a quality was given (not None, not "") and is outside the fixed set
BadQuality == Truthy(args.quality) /\ args.quality.val \notin QualitySet
\* a cookie path was given (not None, not "") and names no file on disk
BadCookies == Truthy(args.cookies) /\ args.cookies.val \notin FsFiles
ConfigInvalid == ~RecognizedPlatform \/ ~HttpUrl \/ BadQuality \/ BadCookies

\* the argument parser of main() ended the run before the constructor
ParserEnded == mode = "cli" /\ pc = "exited" /\ self = <<>> /\ exc = "none"
\* __init__ was called and has returned or raised
CtorDone == pc \notin {"main", "ctor"} /\ ~ParserEnded
CtorRaised(kinds) == CtorDone /\ self = <<>> /\ exc \in kinds
CtorReturned == self # <<>>
\* the run is over: the process exited, or control is back at the caller
RunOver == pc = "exited" \/ (mode = "lib" /\ pc \in {"unwind", "returned"})

DownloadFailed ==
    /\ CtorReturned
    /\ RunOver
    /\ ~result.some
    /\ exc # "KeyboardInterrupt"

C2_ErrorsRaisedOrExit ==
    DownloadFailed =>
        IF suppress_output
        THEN exitCode = NotExited /\ pc = "unwind" /\ exc # "none"
        ELSE exitCode > 0 /\ stdout # <<>> /\ stdout[Len(stdout)] \notin {"header", "warning"}

(***************************************************************************)
(* C3.  As stated: for every run of main() the exit code is 0 exactly when *)
(* the download succeeded, and otherwise 1.                                *)
(***************************************************************************)
C3_ExitCodeAsStated ==
    (mode = "cli" /\ pc = "exited") =>
        /\ exitCode = 0 <=> result.some
        /\ exitCode \in {0, 1}

(***************************************************************************)
(* C3, amended.  When the argument parser ends the run, the exit code is 0 *)
(* for --help and 2 for a platform or quality outside the choices.         *)
(* Otherwise it is 0 exactly when the download succeeded and 1 in every    *)
(* other case: validation error, missing cookie file, download or          *)
(* extraction failure, user interrupt.                                     *)
(***************************************************************************)
C3_ExitCode ==
    (mode = "cli" /\ pc = "exited") =>
        IF ParserEnded
        THEN \/ help /\ exitCode = 0
             \/ ParserRejects(args) /\ exitCode = 2
        ELSE /\ exitCode = 0 <=> result.some
             /\ exitCode \in {0, 1}
             /\ exc \in {"ValueError", "FileNotFoundError", "KeyboardInterrupt",
                         "DownloadError", "ExtractorError"} => exitCode = 1

C3_Witness ==
    /\ mode = "cli"
    /\ pc = "exited"
    /\ exc = "KeyboardInterrupt"
    /\ libCalls # <<>>
    /\ exitCode = 1

(***************************************************************************)
(* C4.  As stated: a quality passed to the constructor that is outside the *)
(* fixed set, the empty string included, makes construction fail with a    *)
(* ValueError when every other input is valid.                             *)
(***************************************************************************)
OthersValidForQuality == RecognizedPlatform /\ HttpUrl /\ ~BadCookies

C4_QualityAsStated ==
    ( /\ CtorDone
      /\ OthersValidForQuality
      /\ args.quality.some
      /\ args.quality.val \notin QualitySet )
    => CtorRaised({"ValueError", "KeyboardInterrupt"})

(***************************************************************************)
(* C4, amended.  A non-empty quality outside the fixed set makes           *)
(* construction fail with a ValueError when every other input is valid;    *)
(* the empty string, like None, is replaced by 'best' and is never         *)
(* rejected.                                                               *)
(***************************************************************************)
C4_Quality ==
    (CtorDone /\ OthersValidForQuality) =>
        /\ BadQuality => CtorRaised({"ValueError", "KeyboardInterrupt"})
        /\ ~Truthy(args.quality) =>
              /\ exc # "ValueError"
              /\ CtorReturned => self[1].quality = best

C4_Witness ==
    /\ mode = "lib"
    /\ OthersValidForQuality
    /\ args.quality = Some(q999)
    /\ CtorRaised({"ValueError"})

(***************************************************************************)
(* C5.  As stated: a cookie path that does not exist on disk makes         *)
(* construction fail with FileNotFoundError, whatever the other inputs.    *)
(***************************************************************************)
C5_CookiesAsStated ==
    (CtorDone /\ BadCookies) => CtorRaised({"FileNotFoundError", "KeyboardInterrupt"})

(***************************************************************************)
(* C5, amended.  A cookie path that does not exist on disk makes           *)
(* construction fail: with FileNotFoundError when the platform, the URL    *)
(* and the quality are valid, and with the ValueError of the earlier check *)
(* when one of them is not.                                                *)
(***************************************************************************)
C5_Cookies ==
    (CtorDone /\ BadCookies) =>
        IF RecognizedPlatform /\ HttpUrl /\ ~BadQuality
        THEN CtorRaised({"FileNotFoundError", "KeyboardInterrupt"})
        ELSE CtorRaised({"ValueError", "KeyboardInterrupt"})

C5_Witness ==
    /\ BadCookies
    /\ RecognizedPlatform /\ HttpUrl /\ ~BadQuality
    /\ CtorRaised({"FileNotFoundError"})

(***************************************************************************)
(* C6.  As stated: for a recognized platform and an http(s) URL the        *)
(* warning is printed exactly when the domain of the URL is not one of the *)
(* platform's known domains, and the mismatch alone never fails the        *)
(* construction.                                                           *)
(***************************************************************************)
\* the host of an http(s) URL, lower-cased: what follows the scheme, up to
\* the first '/', '?' or '#'
Host(link) ==
    LET rest == IF StartsWith(link, https_prefix)
                THEN SubSeq(link, Len(https_prefix) + 1, Len(link))
                ELSE SubSeq(link, Len(http_prefix) + 1, Len(link))
        stops == {i \in DOMAIN rest : rest[i] \in {"/", "?", "#"}}
        end == IF stops = {} THEN Len(rest)
               ELSE (CHOOSE i \in stops : \A j \in stops : i <= j) - 1
    IN  Lower(SubSeq(rest, 1, end))
EndsWith(s, suffix) ==
    /\ Len(suffix) <= Len(s)
    /\ SubSeq(s, Len(s) - Len(suffix) + 1, Len(s)) = suffix
KnownDomains == PLATFORMS[_normalize_platform(args.platform)]
\* the host is a known domain of the platform, or a subdomain of one
HostKnown ==
    \E i \in DOMAIN KnownDomains :
        \/ Host(args.link) = KnownDomains[i]
        \/ EndsWith(Host(args.link), <<".">> \o KnownDomains[i])
\* some known domain occurs somewhere in the lower-cased URL
UrlMentionsDomain ==
    \E i \in DOMAIN KnownDomains : Contains(Lower(args.link), KnownDomains[i])
Warned == \E i \in DOMAIN stdout : stdout[i] = "warning"
\* the validation ran to its end or to a later check than the domain test
DomainTestRan ==
    /\ CtorDone
    /\ RecognizedPlatform
    /\ HttpUrl
    /\ exc # "KeyboardInterrupt"

C6_WarningAsStated ==
    DomainTestRan =>
        /\ Warned <=> ~HostKnown
        /\ (~BadQuality /\ ~BadCookies) => exc \notin {"ValueError", "FileNotFoundError"}

(***************************************************************************)
(* C6, amended.  For a recognized platform and an http(s) URL the warning  *)
(* is printed exactly when none of the platform's known domains occurs as  *)
(* a substring of the lower-cased URL (the whole URL, not its host), and   *)
(* the mismatch alone never fails the construction.                        *)
(***************************************************************************)
C6_Warning ==
    DomainTestRan =>
        /\ Warned <=> ~UrlMentionsDomain
        /\ (~BadQuality /\ ~BadCookies) => exc \notin {"ValueError", "FileNotFoundError"}

C6_Witness ==
    /\ DomainTestRan
    /\ Warned
    /\ CtorReturned
    /\ args.link = LinkVimeo

(***************************************************************************)
(* C7.  The requested format takes precedence in the returned path: on     *)
(* every successful download() with a format, the returned path is the     *)
(* base name (the custom filename, or else the predicted filename, with    *)
(* its extension stripped), a dot and the requested format, whatever       *)
(* extension the library reports.  Without a format, audio-only mode       *)
(* yields 'mp3' and video mode the extension the library reported.         *)
(***************************************************************************)
\* a name without its extension: the last dot of the last path component
\* starts the extension, unless that component has only dots before it
Stem(name) ==
    LET comp == SubSeq(name, RFind(name, "/") + 1, Len(name))
        dot == RFind(comp, ".")
        hidden == \A i \in 1..(dot - 1) : comp[i] = "."
    IN  IF dot = 0 \/ hidden THEN name
        ELSE SubSeq(name, 1, Len(name) - (Len(comp) - dot + 1))
\* the extension of a name, without the dot
Suffix(name) == SubSeq(name, Len(Stem(name)) + 2, Len(name))

C7_FormatPrecedence ==
    result.some =>
        LET s == self[1]
            custom == Truthy(s.filename)
            base == IF custom THEN PathJoin(s.output_dir, Stem(s.filename.val))
                    ELSE Stem(final_filename[1])
            path == result.val
        IN  /\ path = Absolute(path)
            /\ IF Truthy(args.format)
               THEN path = Absolute(base \o <<".">> \o args.format.val)
               ELSE IF s.audio_only
               THEN path = Absolute(base \o <<".">> \o mp3)
               ELSE IF custom
               THEN info[1].ext.some => path = Absolute(base \o <<".">> \o info[1].ext.val)
               ELSE path = Absolute(final_filename[1])

C7_Witness ==
    /\ result.some
    /\ args.filename = Some(<<"c", ".", "c">>)
    /\ args.format = Some(webm)
    /\ ~args.audio_only
    /\ info[1].ext = Some(mp4)
    /\ result.val = Cwd \o <<"/", "o", "u", "t", "/", "c", ".", "w", "e", "b", "m">>

(***************************************************************************)
(* C8.  The format selector is a function of (audio_only, quality) alone:  *)
(* a numeric quality q asks for video of height <= q plus best audio, then *)
(* for a combined stream of height <= q, then for unrestricted 'best';     *)
(* 'best' gives 'bestvideo+bestaudio/best'; audio-only gives               *)
(* 'bestaudio/best'.                                                       *)
(***************************************************************************)
\* the alternatives of a selector: its parts between the '/' separators
RECURSIVE Alternatives(_)
Alternatives(sel) ==
    LET slashes == {i \in DOMAIN sel : sel[i] = "/"}
    IN  IF slashes = {} THEN <<sel>>
        ELSE LET cut == CHOOSE i \in slashes : \A j \in slashes : i <= j
             IN  <<SubSeq(sel, 1, cut - 1)>>
                 \o Alternatives(SubSeq(sel, cut + 1, Len(sel)))
bestvideo == <<"b", "e", "s", "t", "v", "i", "d", "e", "o">>
bestaudio == <<"b", "e", "s", "t", "a", "u", "d", "i", "o">>
HeightAtMost(q) == <<"[", "h", "e", "i", "g", "h", "t", "<", "=">> \o q \o <<"]">>
\* the quality the validated configuration holds: the given one, or 'best'
GivenQuality == IF Truthy(args.quality) THEN args.quality.val ELSE best
ExpectedAlternatives(audio_only, quality) ==
    IF audio_only THEN <<bestaudio, best>>
    ELSE IF quality = best THEN <<bestvideo \o <<"+">> \o bestaudio, best>>
    ELSE <<bestvideo \o HeightAtMost(quality) \o <<"+">> \o bestaudio,
           best \o HeightAtMost(quality),
           best>>

C8_FormatSelector ==
    ydl_opts # <<>> =>
        /\ GivenQuality \in QualitySet
        /\ Alternatives(ydl_opts[1].format)
              = ExpectedAlternatives(args.audio_only, GivenQuality)

C8_Witness ==
    /\ ydl_opts # <<>>
    /\ args.quality = Some(q720)
    /\ ~args.audio_only
    /\ Len(Alternatives(ydl_opts[1].format)) = 3

(***************************************************************************)
(* C9.  Within one download() the library calls happen in a fixed order,   *)
(* at most once each: the probe precedes the download call, the download   *)
(* call is made only after the probe returned, the path is returned only   *)
(* after the download call returned, and once a call has failed no further *)
(* library call is made.                                                   *)
(***************************************************************************)
CallOrder == <<"YoutubeDL", "extract_info", "download", "prepare_filename">>
Called(name) == \E i \in DOMAIN libCalls : libCalls[i] = name

C9_CallsInOrder ==
    /\ Len(libCalls) <= Len(CallOrder)
    /\ libCalls = SubSeq(CallOrder, 1, Len(libCalls))
    /\ Called("download") => info # <<>>
    /\ result.some => (Called("download") /\ exc = "none")

C9_NoCallAfterFailure == [][exc # "none" => libCalls' = libCalls]_vars

C9_OrderedOnceNoRetry == []C9_CallsInOrder /\ C9_NoCallAfterFailure

C9_Witness ==
    /\ mode = "lib"
    /\ pc = "unwind"
    /\ exc = "Exception: Download error"
    /\ libCalls = <<"YoutubeDL", "extract_info", "download">>
    /\ ~result.some

(***************************************************************************)
(* C10.  The output directory is created only after the validation has     *)
(* passed: a constructor that fails with a validation error leaves the     *)
(* filesystem as it was, and after a constructor that returned the output  *)
(* directory exists.                                                       *)
(***************************************************************************)
GivenOutputDir == IF Truthy(args.output_dir) THEN args.output_dir.val ELSE Cwd

C10_DirectoryAfterValidation ==
    /\ CtorRaised({"ValueError", "FileNotFoundError"}) => fsDirs = {Cwd}
    /\ CtorReturned => GivenOutputDir \in fsDirs

C10_Witness ==
    /\ CtorRaised({"ValueError"})
    /\ args.output_dir = Some(OutSub)
    /\ RecognizedPlatform
    /\ HttpUrl
    /\ BadQuality

====
